---- MODULE Spec2Model ----
(***************************************************************************)
(* Model of the drive-record decoder of src/src/App.tsx: the field schema, *)
(* the field transforms, the fixed-position slicing of parseFile, and the  *)
(* React state that handleFileChange, the parse timer and the (possibly    *)
(* overlapping) parseFile invocations write.                               *)
(*                                                                         *)
(* A JavaScript string is a sequence of one-character strings.  The two    *)
(* non-ASCII characters the transforms emit are written as the tokens      *)
(* "deg" (U+00B0) and "^2" (U+00B2); the Korean messages and field names   *)
(* are written as ASCII tokens, with the original next to them.            *)
(***************************************************************************)
EXTENDS Integers, Sequences, FiniteSets, TLC

----------------------------------------------------------------------------
(* String primitives of the JavaScript runtime, as the code uses them.     *)

Min(a, b) == IF a <= b THEN a ELSE b
Max(a, b) == IF a >= b THEN a ELSE b

\* String.prototype.substring(a, b): both ends clamped to 0..length, swapped
\* when a > b; positions are 0-based, the end is exclusive.
Substring(s, a, b) ==
  LET ca == Max(0, Min(a, Len(s)))
      cb == Max(0, Min(b, Len(s)))
  IN  SubSeq(s, Min(ca, cb) + 1, Max(ca, cb))

\* substring(a) with the end omitted
SubstringFrom(s, a) == Substring(s, a, Len(s))

\* The white space String.prototype.trim, parseInt and parseFloat skip: the
\* ECMAScript WhiteSpace and LineTerminator code points.  A code point that
\* has no escape in a string here is written as the token "U+xxxx".
WhiteSpace ==
  {" ", "\t", "\n", "\r", "\f", "U+000B", "U+00A0", "U+FEFF", "U+2028",
   "U+2029", "U+1680", "U+2000", "U+2001", "U+2002", "U+2003", "U+2004",
   "U+2005", "U+2006", "U+2007", "U+2008", "U+2009", "U+200A", "U+202F",
   "U+205F", "U+3000"}

IsBlank(s) == \A i \in 1..Len(s) : s[i] \in WhiteSpace

\* text.replace(/\r\n/g, '\n'): every "\r" that a "\n" follows is dropped.
ReplaceCRLF(s) ==
  LET D == {i \in 1..(Len(s) - 1) : s[i] = "\r" /\ s[i + 1] = "\n"}
      Src(k) == CHOOSE j \in k..(k + Cardinality(D)) :
                  /\ j \notin D
                  /\ j - Cardinality({d \in D : d < j}) = k
  IN  IF D = {} THEN s
      ELSE [k \in 1..(Len(s) - Cardinality(D)) |-> s[Src(k)]]

\* value.replace(/#/g, '')
StripHash(s) == SelectSeq(s, LAMBDA c : c # "#")

Digits == <<"0", "1", "2", "3", "4", "5", "6", "7", "8", "9">>
IsDigit(c) == \E i \in 1..10 : Digits[i] = c
DigitVal(c) == (CHOOSE i \in 1..10 : Digits[i] = c) - 1

RECURSIVE DigitsValue(_)
DigitsValue(ds) ==
  IF ds = <<>> THEN 0
  ELSE 10 * DigitsValue(SubSeq(ds, 1, Len(ds) - 1)) + DigitVal(ds[Len(ds)])

\* A JavaScript number that is an integer or NaN.
NaN == [nan |-> TRUE, val |-> 0]
Num(n) == [nan |-> FALSE, val |-> n]

\* the index of the first character of s that is not white space
FirstNonWs(s) ==
  IF IsBlank(s) THEN Len(s) + 1
  ELSE CHOOSE i \in 1..Len(s) :
         s[i] \notin WhiteSpace /\ \A j \in 1..(i - 1) : s[j] \in WhiteSpace

\* the end of the longest run of decimal digits of s that starts at d0
DigitRunEnd(s, d0) ==
  IF \A i \in d0..Len(s) : IsDigit(s[i]) THEN Len(s)
  ELSE (CHOOSE i \in d0..Len(s) :
          ~IsDigit(s[i]) /\ \A j \in d0..(i - 1) : IsDigit(s[j])) - 1

ParseDigits(s, d0, dEnd, sign) ==
  IF dEnd < d0 THEN NaN ELSE Num(sign * DigitsValue(SubSeq(s, d0, dEnd)))

ParseSigned(s, i0) ==
  IF i0 <= Len(s) /\ s[i0] = "-" THEN ParseDigits(s, i0 + 1, DigitRunEnd(s, i0 + 1), -1)
  ELSE IF i0 <= Len(s) /\ s[i0] = "+"
       THEN ParseDigits(s, i0 + 1, DigitRunEnd(s, i0 + 1), 1)
       ELSE ParseDigits(s, i0, DigitRunEnd(s, i0), 1)

\* the index of the last character of s that is not white space
LastNonWs(s) ==
  CHOOSE i \in 1..Len(s) :
    s[i] \notin WhiteSpace /\ \A j \in (i + 1)..Len(s) : s[j] \in WhiteSpace

\* String.prototype.trim
Trim(s) ==
  IF IsBlank(s) THEN <<>>
  ELSE SubSeq(s, FirstNonWs(s), LastNonWs(s))

\* parseInt(s, 10): leading white space is skipped, one sign is accepted, the
\* longest run of decimal digits is read; NaN when that run is empty.
ParseInt(s) == ParseSigned(s, FirstNonWs(s))

HexDigits == <<"0", "1", "2", "3", "4", "5", "6", "7", "8", "9",
               "a", "b", "c", "d", "e", "f">>
HexUpper == <<"0", "1", "2", "3", "4", "5", "6", "7", "8", "9",
              "A", "B", "C", "D", "E", "F">>
IsHexDigit(c) == \E i \in 1..16 : HexDigits[i] = c \/ HexUpper[i] = c
HexVal(c) == (CHOOSE i \in 1..16 : HexDigits[i] = c \/ HexUpper[i] = c) - 1

RECURSIVE HexValue(_)
HexValue(ds) ==
  IF ds = <<>> THEN 0
  ELSE 16 * HexValue(SubSeq(ds, 1, Len(ds) - 1)) + HexVal(ds[Len(ds)])

\* the end of the longest run of hexadecimal digits of s that starts at d0
HexRunEnd(s, d0) ==
  IF \A i \in d0..Len(s) : IsHexDigit(s[i]) THEN Len(s)
  ELSE (CHOOSE i \in d0..Len(s) :
          ~IsHexDigit(s[i]) /\ \A j \in d0..(i - 1) : IsHexDigit(s[j])) - 1

ParseHexDigits(s, d0, dEnd, sign) ==
  IF dEnd < d0 THEN NaN ELSE Num(sign * HexValue(SubSeq(s, d0, dEnd)))

\* whether "0x" or "0X" stands at d0
HasHexPrefix(s, d0) ==
  d0 + 1 <= Len(s) /\ s[d0] = "0" /\ s[d0 + 1] \in {"x", "X"}

\* the digits after the sign, in radix 16 after "0x" or "0X", else in radix 10
ParseAutoDigits(s, d0, sign) ==
  IF HasHexPrefix(s, d0)
  THEN ParseHexDigits(s, d0 + 2, HexRunEnd(s, d0 + 2), sign)
  ELSE ParseDigits(s, d0, DigitRunEnd(s, d0), sign)

ParseAutoSigned(s, i0) ==
  IF i0 <= Len(s) /\ s[i0] = "-" THEN ParseAutoDigits(s, i0 + 1, -1)
  ELSE IF i0 <= Len(s) /\ s[i0] = "+" THEN ParseAutoDigits(s, i0 + 1, 1)
       ELSE ParseAutoDigits(s, i0, 1)

\* parseInt(s) without a radix: as parseInt(s, 10), but after "0x" or "0X"
\* the digits are read in radix 16 (NaN when none follows)
ParseIntAuto(s) == ParseAutoSigned(s, FirstNonWs(s))

\* x || 0 for a number x: NaN, 0 and -0 are falsy.
OrZero(p) == IF p.nan THEN 0 ELSE p.val

\* Comparisons with NaN are false.
NumGt(p, n) == ~p.nan /\ p.val > n
NumLe(p, n) == ~p.nan /\ p.val <= n
NumLt(p, n) == ~p.nan /\ p.val < n

RECURSIVE NatToStr(_)
NatToStr(n) ==
  IF n < 10 THEN <<Digits[n + 1]>>
  ELSE NatToStr(n \div 10) \o <<Digits[(n % 10) + 1]>>

\* `${n}` for an integer n
IntToStr(n) == IF n < 0 THEN <<"-">> \o NatToStr(-n) ELSE NatToStr(n)

RECURSIVE Pow10(_)
Pow10(k) == IF k = 0 THEN 1 ELSE 10 * Pow10(k - 1)

RECURSIVE PadZero(_, _)
PadZero(s, width) == IF Len(s) >= width THEN s ELSE PadZero(<<"0">> \o s, width)

\* (scaled / 10^decimals).toFixed(decimals) for an integer `scaled`.
ToFixed(scaled, decimals) ==
  LET mag == IF scaled < 0 THEN -scaled ELSE scaled
  IN  (IF scaled < 0 THEN <<"-">> ELSE <<>>)
        \o NatToStr(mag \div Pow10(decimals)) \o <<".">>
        \o PadZero(NatToStr(mag % Pow10(decimals)), decimals)

----------------------------------------------------------------------------
(* The field transforms (the format closures of the two schemas).          *)

\* format of the device model, chassis number, plate number and driver code
\* (운행기록장치모델명, 차대번호, 자동차등록번호, 운전자코드)
FormatStripTrim(value) == Trim(StripHash(value))

\* format of the operator registration number (운송사업자등록번호)
FormatRegistration(value) ==
  IF Len(value) = 10
  THEN Substring(value, 0, 3) \o <<"-">> \o Substring(value, 3, 5)
         \o <<"-">> \o SubstringFrom(value, 5)
  ELSE value

\* part if lo < parseInt(part) <= hi, else dflt (month and day)
ClampPositive(part, n, hi, dflt) ==
  IF NumGt(n, 0) /\ NumLe(n, hi) THEN part ELSE dflt

\* the clamp accepts the limit itself
ClampBelowOrAt(part, n, limit) == IF NumLe(n, limit) THEN part ELSE <<"0", "0">>

\* part if parseInt(part) < limit, else "00" (hour, minute and second)
ClampBelow(part, n, limit) == IF NumLt(n, limit) THEN part ELSE <<"0", "0">>

ValidMonth(month) == ClampPositive(month, ParseIntAuto(month), 12, <<"0", "1">>)
ValidDay(day) == ClampPositive(day, ParseIntAuto(day), 31, <<"0", "1">>)
ValidHour(hour) == ClampBelow(hour, ParseIntAuto(hour), 24)
ValidMinute(minute) == ClampBelow(minute, ParseIntAuto(minute), 60)
ValidSecond(second) == ClampBelow(second, ParseIntAuto(second), 60)

\* format of the timestamp (정보발생일시)
FormatTimestamp(value) ==
  IF Len(value) = 14
  THEN <<"2", "0">> \o Substring(value, 0, 2)
         \o <<"-">> \o ValidMonth(Substring(value, 2, 4))
         \o <<"-">> \o ValidDay(Substring(value, 4, 6))
         \o <<" ">> \o ValidHour(Substring(value, 6, 8))
         \o <<":">> \o ValidMinute(Substring(value, 8, 10))
         \o <<":">> \o ValidSecond(Substring(value, 10, 12))
         \o <<".">> \o Substring(value, 12, 14)
  ELSE value

\* the plausibility bound of the speed transform (speed > 200)
SpeedLimit == 200

\* the correction re-derives the speed from the last two characters
CorrectSpeedLastTwo(value, speed) ==
  IF speed > SpeedLimit THEN OrZero(ParseInt(Substring(value, 1, 3))) ELSE speed

\* speed > 200 ? parseInt(value.substring(0, 2), 10) || 0 : speed
CorrectSpeed(value, speed) ==
  IF speed > SpeedLimit THEN OrZero(ParseInt(Substring(value, 0, 2))) ELSE speed

\* the corrected speed (validSpeed) of the speed transform
ValidSpeed(value) == CorrectSpeed(value, OrZero(ParseInt(value)))

\* format of the vehicle speed (차량속도)
FormatSpeed(value) == IntToStr(ValidSpeed(value)) \o <<" ", "k", "m", "/", "h">>

\* the plausibility bound of the engine speed transform (rpm > 10000)
RpmLimit == 10000

\* rpm > 10000 ? parseInt(value.substring(0, 3), 10) || 0 : rpm
CorrectRpm(value, rpm) ==
  IF rpm > RpmLimit THEN OrZero(ParseInt(Substring(value, 0, 3))) ELSE rpm

\* format of the engine revolutions per minute (분당엔진회전수)
FormatRpm(value) ==
  IntToStr(CorrectRpm(value, OrZero(ParseInt(value)))) \o <<" ", "R", "P", "M">>

\* format of the brake signal (브레이크신호)
FormatBrake(value) == IF value = <<"1">> THEN <<"O", "N">> ELSE <<"O", "F", "F">>

\* The coordinate transforms keep the coordinate in millionths of a degree:
\* parseInt(value, 10) / 1000000 || 0, the bound, the fallback on the first
\* `keep` characters divided by 10, and toFixed(6).
CorrectCoord(value, micro, boundDegrees, keep) ==
  IF micro > boundDegrees * 1000000 \/ micro < -(boundDegrees * 1000000)
  THEN OrZero(ParseInt(Substring(value, 0, keep))) * 100000
  ELSE micro

FormatCoord(value, boundDegrees, keep) ==
  ToFixed(CorrectCoord(value, OrZero(ParseInt(value)), boundDegrees, keep), 6)

\* format of the X coordinate (X좌표): bound 180, fallback on 3 characters
FormatX(value) == FormatCoord(value, 180, 3)

\* format of the Y coordinate (Y좌표): bound 90, fallback on 2 characters
FormatY(value) == FormatCoord(value, 90, 2)

\* format of the GPS heading (GPS방위각)
FormatHeading(value) == IntToStr(OrZero(ParseInt(value))) \o <<"deg">>

----------------------------------------------------------------------------
(* Natural numbers of any size, as the sequence of their base-10000        *)
(* digits, the least significant first and the most significant not 0;     *)
(* the empty sequence is 0.  They carry the 53-bit significands and the    *)
(* decimal expansions of the binary64 numbers below.                       *)

\* a without the zeros at its most significant end
BigNorm(a) ==
  IF \A i \in 1..Len(a) : a[i] = 0 THEN <<>>
  ELSE SubSeq(a, 1, CHOOSE i \in 1..Len(a) :
                      a[i] # 0 /\ \A j \in (i + 1)..Len(a) : a[j] = 0)

\* the number written by the decimal digits ds
BigFromDigits(ds) ==
  BigNorm([i \in 1..((Len(ds) + 3) \div 4) |->
             DigitsValue(Substring(ds, Len(ds) - 4 * i, Len(ds) - 4 * i + 4))])

\* ds without the zeros at its front, "0" for zeros only
LeadingStripped(ds) ==
  IF \A i \in 1..Len(ds) : ds[i] = "0" THEN <<"0">>
  ELSE SubSeq(ds, CHOOSE i \in 1..Len(ds) :
                    ds[i] # "0" /\ \A j \in 1..(i - 1) : ds[j] = "0", Len(ds))

\* the decimal digits of a, four for each of its base-10000 digits
BigDigits(a) ==
  LeadingStripped(
    [j \in 1..(4 * Len(a)) |->
       Digits[((a[Len(a) - ((j - 1) \div 4)] \div Pow10(3 - ((j - 1) % 4))) % 10) + 1]])

Limb(a, i) == IF 1 <= i /\ i <= Len(a) THEN a[i] ELSE 0

\* -1, 0 or 1 as a is below, equal to or above b: by the lengths, then by
\* the most significant digit that differs
BigCmpAt(a, b, i) == IF a[i] < b[i] THEN -1 ELSE 1

BigCmp(a, b) ==
  IF Len(a) < Len(b) THEN -1
  ELSE IF Len(a) > Len(b) THEN 1
  ELSE IF a = b THEN 0
  ELSE BigCmpAt(a, b, CHOOSE i \in 1..Len(a) :
                        a[i] # b[i] /\ \A j \in (i + 1)..Len(a) : a[j] = b[j])

\* The carry into the digit i of a sum whose digit sums are s (each below
\* 20000): a digit sum below i overflows and the ones between pass the
\* carry on.
Carry(s, i) ==
  \E j \in 1..(i - 1) :
    s[j] >= 10000 /\ \A k \in (j + 1)..(i - 1) : s[k] = 9999

CarryIn(s, i) == IF Carry(s, i) THEN 1 ELSE 0

\* the number of the digit sums s
Carried(s) ==
  BigNorm([i \in 1..(Len(s) + 1) |-> (Limb(s, i) + CarryIn(s, i)) % 10000])

BigAdd(a, b) ==
  Carried([i \in 1..Max(Len(a), Len(b)) |-> Limb(a, i) + Limb(b, i)])

\* The borrow from the digit i of a difference whose digit differences are
\* d: a difference below i is negative and the ones between are 0.
Borrow(d, i) ==
  \E j \in 1..(i - 1) :
    d[j] < 0 /\ \A k \in (j + 1)..(i - 1) : d[k] = 0

BorrowIn(d, i) == IF Borrow(d, i) THEN 1 ELSE 0

Borrowed(d) ==
  BigNorm([i \in 1..Len(d) |-> (d[i] - BorrowIn(d, i) + 10000) % 10000])

\* a - b for a >= b
BigSub(a, b) == Borrowed([i \in 1..Len(a) |-> a[i] - Limb(b, i)])

\* a * m for 1 <= m <= 8192: the low parts of the digit products and the
\* high parts one digit up
BigMulSmall(a, m) ==
  Carried([i \in 1..(Len(a) + 1) |->
             ((Limb(a, i) * m) % 10000) + ((Limb(a, i - 1) * m) \div 10000)])

\* The remainder by d of the digits of a from the digit i up, for a d that
\* divides 10000^3 and is at most 4096: the digits from i + 3 up are
\* multiples of d.
RemFrom(a, d, i) ==
  ((Limb(a, i) % d)
     + (10000 % d) * (Limb(a, i + 1) % d)
     + (100000000 % d) * (Limb(a, i + 2) % d)) % d

\* the quotient and the remainder of a by such a d
BigDivSmall(a, d) ==
  [quot |-> BigNorm([i \in 1..Len(a) |->
                       (RemFrom(a, d, i + 1) * 10000 + a[i]) \div d]),
   rem |-> RemFrom(a, d, 1)]

RECURSIVE Pow2(_)
Pow2(k) == IF k = 0 THEN 1 ELSE 2 * Pow2(k - 1)

\* a * 2^n, by halves of n
RECURSIVE BigShl(_, _)
BigShl(a, n) ==
  IF a = <<>> THEN a
  ELSE IF n <= 13 THEN BigMulSmall(a, Pow2(n))
  ELSE BigShl(BigShl(a, n \div 2), n - (n \div 2))

\* floor(a / 2^n), by halves of n
RECURSIVE BigShr(_, _)
BigShr(a, n) ==
  IF a = <<>> THEN a
  ELSE IF n <= 12 THEN BigDivSmall(a, Pow2(n)).quot
  ELSE BigShr(BigShr(a, n \div 2), n - (n \div 2))

\* a * 10^k
BigMulPow10(a, k) ==
  IF a = <<>> THEN a
  ELSE BigMulSmall([i \in 1..(k \div 4) |-> 0] \o a, Pow10(k % 4))

\* the quotient of a by 10^k, and whether a remainder is left
BigDivPow10(a, k) ==
  [quot |-> BigDivSmall(SubstringFrom(a, k \div 4), Pow10(k % 4)).quot,
   inexact |-> \/ BigDivSmall(SubstringFrom(a, k \div 4), Pow10(k % 4)).rem # 0
               \/ \E i \in 1..Min(k \div 4, Len(a)) : a[i] # 0]

\* the k with 2^k <= t < 2^(k + 1), for 1 <= t < 10000
Log2Floor(t) == CHOOSE k \in 0..13 : Pow2(k) <= t /\ t < 2 * Pow2(k)

\* A number of bits n with 2^n <= a < 2^(n + 3), for a > 0: 10000 is above
\* 2^13.2877.
BitsBelow(a) ==
  (((Len(a) - 1) * 132877) \div 10000) + Log2Floor(a[Len(a)])

\* 2^40, 2^49, 2^52, 2^53, 2^54 and 10^21
TwoTo40 == <<7776, 1162, 995, 1>>
TwoTo49 == <<1312, 5342, 9499, 562>>
TwoTo52 == <<496, 2737, 5996, 4503>>
TwoTo53 == <<992, 5474, 1992, 9007>>
TwoTo54 == <<1984, 948, 3985, 8014, 1>>
TenTo21 == <<0, 0, 0, 0, 0, 10>>

----------------------------------------------------------------------------
(* Binary64 numbers, as JavaScript's Number holds them: NaN, an infinity,  *)
(* or sign * man * 2^exp with man < 2^53 and exp >= -1074, where           *)
(* man >= 2^52 unless exp = -1074 (a subnormal number), and 0 is man = 0   *)
(* with exp = 0.                                                           *)

F64NaN == [nan |-> TRUE, inf |-> FALSE, neg |-> FALSE, man |-> <<>>, exp |-> 0]
F64Inf(neg) == [nan |-> FALSE, inf |-> TRUE, neg |-> neg, man |-> <<>>, exp |-> 0]
F64Zero(neg) == [nan |-> FALSE, inf |-> FALSE, neg |-> neg, man |-> <<>>, exp |-> 0]

\* A positive value (num + f) * 2^exp with 0 <= f < 1, and f > 0 exactly
\* when sticky.
Scaled(num, exp, sticky) == [num |-> num, exp |-> exp, sticky |-> sticky]

\* The same value with num >= 2^53, or at the exponent -1075; for a value
\* that is not sticky.
RECURSIVE Widened(_)
Widened(w) ==
  IF BigCmp(w.num, TwoTo40) < 0 /\ w.exp >= -1075 + 13
  THEN Widened(Scaled(BigMulSmall(w.num, 8192), w.exp - 13, w.sticky))
  ELSE IF BigCmp(w.num, TwoTo49) < 0 /\ w.exp >= -1075 + 4
  THEN Widened(Scaled(BigMulSmall(w.num, 16), w.exp - 4, w.sticky))
  ELSE IF BigCmp(w.num, TwoTo53) < 0 /\ w.exp > -1075
  THEN Widened(Scaled(BigMulSmall(w.num, 2), w.exp - 1, w.sticky))
  ELSE w

\* the value without its n <= 12 lowest bits, which make it sticky when
\* they are not 0
DroppedBits(w, n) ==
  Scaled(BigDivSmall(w.num, Pow2(n)).quot, w.exp + n,
         w.sticky \/ BigDivSmall(w.num, Pow2(n)).rem # 0)

\* the same for any n, by halves of n
RECURSIVE Dropped(_, _)
Dropped(w, n) ==
  IF w.num = <<>> THEN Scaled(w.num, w.exp + n, w.sticky)
  ELSE IF n <= 12 THEN DroppedBits(w, n)
  ELSE Dropped(Dropped(w, n \div 2), n - (n \div 2))

\* the bits that can go at once: all but 55 or more, and those below the
\* exponent -1075
Excess(w) ==
  IF w.num = <<>> THEN Max(0, -1075 - w.exp)
  ELSE Max(0, Max(BitsBelow(w.num) - 55, -1075 - w.exp))

RECURSIVE NarrowedByOne(_)
NarrowedByOne(w) ==
  IF BigCmp(w.num, TwoTo54) >= 0 \/ w.exp < -1075
  THEN NarrowedByOne(DroppedBits(w, 1))
  ELSE w

\* The same value with num < 2^54 and exp >= -1075: 53 bits and a guard
\* bit, or fewer bits at the exponent -1075.
Narrowed(w) == NarrowedByOne(Dropped(w, Excess(w)))

\* the number of the significand man < 2^53 at the exponent exp; above the
\* exponent 971 it is past the largest number
F64Normal(neg, man, exp) ==
  IF exp > 971 THEN F64Inf(neg)
  ELSE [nan |-> FALSE, inf |-> FALSE, neg |-> neg, man |-> man, exp |-> exp]

\* the number of the significand man <= 2^53 at the exponent exp
F64Finite(neg, man, exp) ==
  IF man = <<>> THEN F64Zero(neg)
  ELSE IF man = TwoTo53 THEN F64Normal(neg, TwoTo52, exp + 1)
  ELSE F64Normal(neg, man, exp)

\* Round to nearest, ties to even: the guard bit of a narrowed value is
\* dropped, and the significand goes up when the guard bit is set and the
\* rest is not 0 or the significand is odd.
Rounded(neg, w) ==
  IF /\ Limb(w.num, 1) % 2 = 1
     /\ (w.sticky \/ Limb(BigDivSmall(w.num, 2).quot, 1) % 2 = 1)
  THEN F64Finite(neg, BigAdd(BigDivSmall(w.num, 2).quot, <<1>>), w.exp + 1)
  ELSE F64Finite(neg, BigDivSmall(w.num, 2).quot, w.exp + 1)

\* The binary64 number nearest to sign * (num + f) * 2^exp.  A sticky value
\* has num >= 2^54 or exp <= -1075.
F64Of(neg, num, exp, sticky) ==
  IF num = <<>> THEN F64Zero(neg)
  ELSE Rounded(neg, Narrowed(Widened(Scaled(num, exp, sticky))))

\* m / 10^k as (num + f) * 2^(-shift), the quotient qr of m * 2^shift by 10^k
QuotientScaled(neg, qr, shift) == F64Of(neg, qr.quot, -shift, qr.inexact)

\* The binary64 number nearest to sign * m * 10^exp.  Values of 10^310 or
\* more are above the largest number, values below 10^-325 are below half
\* the smallest one.  For exp < 0 the quotient m * 2^shift / 10^-exp has 55
\* bits or more.
F64OfDecimal(neg, m, exp) ==
  IF m = <<>> THEN F64Zero(neg)
  ELSE IF exp + Len(BigDigits(m)) - 1 > 309 THEN F64Inf(neg)
  ELSE IF exp + Len(BigDigits(m)) - 1 < -325 THEN F64Zero(neg)
  ELSE IF exp >= 0 THEN F64Of(neg, BigMulPow10(m, exp), 0, FALSE)
  ELSE QuotientScaled(neg,
         BigDivPow10(BigShl(m, 16 * (((-exp) \div 4) + 5)), -exp),
         16 * (((-exp) \div 4) + 5))

\* the value of a run of decimal digits, 100000 for every value above
RECURSIVE CappedValue(_)
CappedValue(ds) ==
  IF ds = <<>> THEN 0
  ELSE Min(100000, 10 * CappedValue(SubSeq(ds, 1, Len(ds) - 1))
                     + DigitVal(ds[Len(ds)]))

\* the exponent part "e" sign digits at position p of s: its value, 0 when
\* no digit follows the "e"
ExponentDigits(s, d0, sign) ==
  IF DigitRunEnd(s, d0) < d0 THEN 0
  ELSE sign * CappedValue(SubSeq(s, d0, DigitRunEnd(s, d0)))

ExponentAt(s, p) ==
  IF ~(p <= Len(s) /\ s[p] \in {"e", "E"}) THEN 0
  ELSE IF p + 1 <= Len(s) /\ s[p + 1] = "-" THEN ExponentDigits(s, p + 2, -1)
  ELSE IF p + 1 <= Len(s) /\ s[p + 1] = "+" THEN ExponentDigits(s, p + 2, 1)
  ELSE ExponentDigits(s, p + 1, 1)

\* the number of the integer digits s[d0..intEnd], the fraction digits
\* s[intEnd + 2..fracEnd] after a "." and the exponent part after them
ParseFraction(s, neg, d0, intEnd, fracEnd) ==
  IF (intEnd - d0 + 1) + (fracEnd - intEnd - 1) < 1 THEN F64NaN
  ELSE F64OfDecimal(neg,
         BigFromDigits(SubSeq(s, d0, intEnd) \o SubSeq(s, intEnd + 2, fracEnd)),
         ExponentAt(s, fracEnd + 1) - (fracEnd - intEnd - 1))

\* the number without a "." after the integer digits s[d0..intEnd]
ParseWhole(s, neg, d0, intEnd) ==
  IF intEnd < d0 THEN F64NaN
  ELSE F64OfDecimal(neg, BigFromDigits(SubSeq(s, d0, intEnd)),
                    ExponentAt(s, intEnd + 1))

ParseDecimal(s, neg, d0, intEnd) ==
  IF intEnd + 1 <= Len(s) /\ s[intEnd + 1] = "."
  THEN ParseFraction(s, neg, d0, intEnd, DigitRunEnd(s, intEnd + 2))
  ELSE ParseWhole(s, neg, d0, intEnd)

ParseUnsigned(s, neg, d0) ==
  IF Substring(s, d0 - 1, d0 + 7) = <<"I", "n", "f", "i", "n", "i", "t", "y">>
  THEN F64Inf(neg)
  ELSE ParseDecimal(s, neg, d0, DigitRunEnd(s, d0))

ParseFloatSigned(s, i0) ==
  IF i0 <= Len(s) /\ s[i0] = "-" THEN ParseUnsigned(s, TRUE, i0 + 1)
  ELSE IF i0 <= Len(s) /\ s[i0] = "+" THEN ParseUnsigned(s, FALSE, i0 + 1)
       ELSE ParseUnsigned(s, FALSE, i0)

\* parseFloat(s): leading white space is skipped, one sign is accepted, then
\* "Infinity" or the longest decimal literal is read: digits, a "." with
\* digits, an exponent part; NaN when there is no digit.  The result is the
\* binary64 number nearest to the decimal value read.
ParseFloat(s) == ParseFloatSigned(s, FirstNonWs(s))

\* -x
F64Neg(x) == IF x.nan THEN x ELSE [x EXCEPT !.neg = ~x.neg]

\* the quotient qr of man * 2^8 by 10, at the exponent exp - 8
Div10Rounded(neg, qr, exp) == F64Of(neg, qr.quot, exp - 8, qr.rem # 0)

\* x / 10: the binary64 number nearest to the quotient
F64Div10(x) ==
  IF x.nan \/ x.inf \/ x.man = <<>> THEN x
  ELSE Div10Rounded(x.neg, BigDivSmall(BigMulSmall(x.man, 256), 10), x.exp)

\* x || 0: NaN, 0 and -0 give 0
F64OrZero(x) == IF x.nan \/ (~x.inf /\ x.man = <<>>) THEN F64Zero(FALSE) ELSE x

\* Math.abs(x) > n for an integer 1 <= n < 10000
F64AbsGt(x, n) ==
  IF x.nan THEN FALSE
  ELSE IF x.inf THEN TRUE
  ELSE IF x.man = <<>> THEN FALSE
  ELSE IF x.exp >= 0 THEN TRUE
  ELSE IF x.exp < -53 THEN FALSE
  ELSE BigCmp(x.man, BigShl(<<n>>, -x.exp)) > 0

\* The integer n for which n / 10 is nearest to man * 2^exp (exp < 0), as
\* toFixed(1) takes it: the larger one when two are as near.  It is
\* floor(man * 10 / 2^-exp + 1/2), and 0 from 2^-exp = 2^58 on.
RoundTenths(man, exp) ==
  IF exp < -57 THEN <<>>
  ELSE BigShr(BigAdd(BigShr(BigMulSmall(man, 10), -exp - 1), <<1>>), 1)

\* the digits of an integer number of tenths, a "." before the last one
TenthsOf(ds) ==
  IF Len(ds) = 1 THEN <<"0", ".">> \o ds
  ELSE SubSeq(ds, 1, Len(ds) - 1) \o <<".">> \o <<ds[Len(ds)]>>

\* the digits of |x| with one decimal, for 0 < |x| < 10^21: those of the
\* binary64 number itself
TenthsDigits(man, exp) ==
  IF exp >= 0 THEN BigDigits(BigShl(man, exp)) \o <<".", "0">>
  ELSE TenthsOf(BigDigits(RoundTenths(man, exp)))

\* the first k digits of ds followed by zeros, as a number
Truncated(ds, k) ==
  BigFromDigits([i \in 1..Len(ds) |-> IF i <= k THEN ds[i] ELSE "0"])

\* the next number of k digits followed by zeros above it
Above(ds, k) ==
  BigAdd(Truncated(ds, k),
         BigFromDigits(<<"1">> \o [i \in 1..(Len(ds) - k) |-> "0"]))

\* a number at the distance diff of x is read back as x: it is nearer than
\* half the gap to the neighbour of x, or at it when the significand of x
\* is even
ReadsBack(diff, half, even) ==
  \/ BigCmp(diff, half) < 0
  \/ even /\ BigCmp(diff, half) = 0

\* the gap between x = man * 2^exp and its lower neighbour, halved: the
\* neighbour is at half the distance below a power of 2
HalfBelow(man, exp) ==
  IF man = TwoTo52 THEN BigShl(<<1>>, exp - 2) ELSE BigShl(<<1>>, exp - 1)

\* The number of the fewest digits (followed by zeros) that is read back as
\* the integer x with the decimal digits ds, the nearest one to x of them;
\* lo and hi are the halved gaps to the neighbours of x.
RECURSIVE Shortest(_, _, _, _, _, _)
Shortest(x, ds, lo, hi, even, k) ==
  IF ReadsBack(BigSub(x, Truncated(ds, k)), lo, even)
  THEN IF /\ ReadsBack(BigSub(Above(ds, k), x), hi, even)
          /\ BigCmp(BigSub(Above(ds, k), x), BigSub(x, Truncated(ds, k))) < 0
       THEN Above(ds, k)
       ELSE Truncated(ds, k)
  ELSE IF ReadsBack(BigSub(Above(ds, k), x), hi, even) THEN Above(ds, k)
  ELSE Shortest(x, ds, lo, hi, even, k + 1)

\* ds without the zeros at its end (the first digit of ds is not 0)
Significant(ds) ==
  SubSeq(ds, 1, CHOOSE i \in 1..Len(ds) :
                  ds[i] # "0" /\ \A j \in (i + 1)..Len(ds) : ds[j] = "0")

\* d.ddd "e+" n for the integer of the decimal digits ds
Exponential(ds) ==
  (IF Len(Significant(ds)) = 1 THEN Significant(ds)
   ELSE <<Head(Significant(ds))>> \o <<".">> \o Tail(Significant(ds)))
    \o <<"e", "+">> \o NatToStr(Len(ds) - 1)

\* Number.prototype.toString for |x| >= 10^21 (exp >= 17): as few digits
\* as tell the binary64 number from its neighbours, "e+", the exponent
ExponentialDigits(man, exp) ==
  Exponential(BigDigits(
    Shortest(BigShl(man, exp), BigDigits(BigShl(man, exp)),
             HalfBelow(man, exp), BigShl(<<1>>, exp - 1),
             Limb(man, 1) % 2 = 0, 1)))

\* |x| >= 10^21 for x = man * 2^exp; below 2^17 * 2^53 it is not
AtLeastTenTo21(man, exp) ==
  exp >= 17 /\ BigCmp(BigShl(man, exp), TenTo21) >= 0

\* x.toFixed(1)
ToFixed1(x) ==
  IF x.nan THEN <<"N", "a", "N">>
  ELSE IF x.man = <<>> /\ ~x.inf THEN <<"0", ".", "0">>
  ELSE (IF x.neg THEN <<"-">> ELSE <<>>)
         \o (IF x.inf THEN <<"I", "n", "f", "i", "n", "i", "t", "y">>
             ELSE IF AtLeastTenTo21(x.man, x.exp)
                  THEN ExponentialDigits(x.man, x.exp)
                  ELSE TenthsDigits(x.man, x.exp))

----------------------------------------------------------------------------
(* The acceleration transforms.                                            *)

\* The sign branch and the bound of 50 of the acceleration transform, for
\* accel = parseFloat(value) / 10 || 0.
CorrectAccel(value, accel) ==
  IF Len(value) >= 1 /\ value[1] = "-"
  THEN F64OrZero(F64Div10(F64Neg(ParseFloat(SubstringFrom(value, 1)))))
  ELSE IF F64AbsGt(accel, 50)
       THEN F64OrZero(F64Div10(ParseFloat(Substring(value, 0, 2))))
       ELSE accel

\* format of the two acceleration fields (가속도ΔVx, 가속도ΔVy)
FormatAccel(value) ==
  ToFixed1(CorrectAccel(value, F64OrZero(F64Div10(ParseFloat(value)))))
    \o <<" ", "m", "/", "s", "^2">>

\* `${parseInt(distance, 10) || 0} km` (일일주행거리, 누적주행거리)
FormatDistance(value) == IntToStr(OrZero(ParseInt(value))) \o <<" ", "k", "m">>

----------------------------------------------------------------------------
(* The field schemas.                                                      *)

\* vehicleInfoFields (차량 기본 정보 필드 정의)
vehicleInfoFields ==
  << [name |-> "deviceModel",        length |-> 20, format |-> "stripTrim"],
     [name |-> "chassisNumber",      length |-> 17, format |-> "stripTrim"],
     [name |-> "vehicleType",        length |-> 2,  format |-> "none"],
     [name |-> "plateNumber",        length |-> 9,  format |-> "stripTrim"],
     [name |-> "operatorRegNumber",  length |-> 10, format |-> "registration"],
     [name |-> "driverCode",         length |-> 18, format |-> "stripTrim"] >>

\* driveRecordFields (운행 기록 데이터 필드 정의)
driveRecordFields ==
  << [name |-> "timestamp",  length |-> 14, format |-> "timestamp"],
     [name |-> "speed",      length |-> 3,  format |-> "speed"],
     [name |-> "rpm",        length |-> 4,  format |-> "rpm"],
     [name |-> "brake",      length |-> 1,  format |-> "brake"],
     [name |-> "xCoord",     length |-> 9,  format |-> "x"],
     [name |-> "yCoord",     length |-> 9,  format |-> "y"],
     [name |-> "heading",    length |-> 3,  format |-> "heading"],
     [name |-> "accelVx",    length |-> 6,  format |-> "accel"],
     [name |-> "accelVy",    length |-> 6,  format |-> "accel"],
     [name |-> "statusCode", length |-> 2,  format |-> "none"] >>

\* field.format ? field.format(value) : value
ApplyFormat(field, value) ==
  CASE field.format = "stripTrim"    -> FormatStripTrim(value)
    [] field.format = "registration" -> FormatRegistration(value)
    [] field.format = "timestamp"    -> FormatTimestamp(value)
    [] field.format = "speed"        -> FormatSpeed(value)
    [] field.format = "rpm"          -> FormatRpm(value)
    [] field.format = "brake"        -> FormatBrake(value)
    [] field.format = "x"            -> FormatX(value)
    [] field.format = "y"            -> FormatY(value)
    [] field.format = "heading"      -> FormatHeading(value)
    [] field.format = "accel"        -> FormatAccel(value)
    [] OTHER                         -> value

RECURSIVE SumLengths(_, _)
SumLengths(fields, n) ==
  IF n = 0 THEN 0 ELSE SumLengths(fields, n - 1) + fields[n].length

\* vehicleInfoLength: the reduce over vehicleInfoFields (76)
vehicleInfoLength == SumLengths(vehicleInfoFields, Len(vehicleInfoFields))

\* driveRecordLength: the reduce over driveRecordFields (57)
driveRecordLength == SumLengths(driveRecordFields, Len(driveRecordFields))

\* the running offset `pos` before field k of a schema
FieldOffset(fields, k) == SumLengths(fields, k - 1)

----------------------------------------------------------------------------
(* The inputs: the texts readFileAsync can resolve to.  A log text is a    *)
(* vehicle header, the distance prefix and a run of sample records, with   *)
(* optional leading white space, an optional line break after the header   *)
(* and an optional tail.                                                   *)

\* a vehicle header block (76 characters)
HeaderText ==
  <<
    "D", "T", "G", "-", "1", "0", "0", "#", "#", "#", "#", "#", "#",
    "#", "#", "#", "#", "#", "#", "#", "K", "M", "H", "A", "B", "1",
    "2", "C", "D", "E", "3", "4", "5", "6", "7", "8", "9", "1", "1",
    "1", "2", "A", "3", "4", "5", "6", "#", "#", "1", "2", "3", "4",
    "5", "6", "7", "8", "9", "0", "D", "R", "V", "0", "0", "1", "#",
    "#", "#", "#", "#", "#", "#", "#", "#", "#", "#", "#" >>

\* a distance prefix: daily distance (4) and cumulative distance (7)
PrefixText ==
  <<
    "0", "0", "1", "2", "0", "0", "0", "3", "4", "5", "6" >>

\* a plausible sample record (57 characters)
RecordPlain ==
  <<
    "2", "5", "0", "1", "1", "1", "0", "0", "0", "0", "0", "0", "0",
    "0", "0", "6", "0", "1", "5", "0", "0", "1", "1", "2", "7", "1",
    "2", "3", "4", "5", "6", "0", "3", "7", "1", "2", "3", "4", "5",
    "6", "0", "9", "0", "-", "0", "0", "0", "3", "0", "0", "0", "0",
    "0", "2", "5", "0", "0" >>

\* a sample record with implausible and non-numeric fields; its second
\* acceleration, -99e20, is one whose binary64 quotient by 10 is not the
\* nearest number to the decimal value
RecordOdd ==
  <<
    "2", "5", "9", "9", "1", "3", "2", "5", "6", "1", "6", "1", "9",
    "9", "9", "7", "1", "0", "8", "0", "0", "0", "9", "9", "9", "9",
    "9", "9", "9", "9", "9", "1", "2", "7", "1", "2", "3", "4", "5",
    "6", "a", "b", "c", "0", "0", "0", "9", "0", "0", "-", "9", "9",
    "e", "2", "0", "A", "1" >>

\* a sample record with boundary values; its status code is two spaces
RecordEdge ==
  <<
    "2", "4", "1", "2", "3", "1", "2", "3", "5", "9", "5", "9", "5",
    "0", "2", "0", "0", "9", "9", "9", "9", "9", "-", "1", "2", "3",
    "4", "5", "6", "7", "8", "0", "9", "0", "0", "0", "0", "0", "0",
    "1", "3", "5", "9", " ", "0", "0", "0", "1", "2", "0", "0", "0",
    "5", "0", "0", " ", " " >>

\* a tail shorter than a record: 10 characters
TailTen ==
  <<
    "9", "8", "7", "6", "5", "4", "3", "2", "1", "0" >>

\* a tail one character short of a record: 56 characters
TailAlmost ==
  <<
    "2", "5", "0", "1", "1", "1", "0", "0", "0", "0", "0", "0", "0",
    "0", "0", "6", "0", "1", "5", "0", "0", "1", "1", "2", "7", "1",
    "2", "3", "4", "5", "6", "0", "3", "7", "1", "2", "3", "4", "5",
    "6", "0", "9", "0", "-", "0", "0", "0", "3", "0", "0", "0", "0",
    "0", "2", "5", "0" >>

\* a final line break
TailNewline == <<"\r", "\n">>

RecordTexts == <<RecordPlain, RecordOdd, RecordEdge>>

\* the text of sample record k of a log text
RecordText(k) == RecordTexts[((k - 1) % Len(RecordTexts)) + 1]

\* n sample records, one after the other
RecordRun(n) ==
  [i \in 1..(n * Len(RecordPlain)) |->
     RecordText(((i - 1) \div Len(RecordPlain)) + 1)[((i - 1) % Len(RecordPlain)) + 1]]

TailText(tail) ==
  CASE tail = "ten"     -> TailTen
    [] tail = "almost"  -> TailAlmost
    [] tail = "newline" -> TailNewline
    [] OTHER            -> <<>>

\* The text of the file with descriptor d: what readFileAsync resolves to.
FileText(d) ==
  CASE d.kind = "empty" -> <<>>
    [] d.kind = "blank" -> <<" ", "\r", "\n", "\t", "\f", "U+3000">>
    [] d.kind = "short" -> SubSeq(HeaderText, 1, 40)
    [] d.kind = "shortSpace" -> SubSeq(HeaderText, 1, 38) \o <<" ">>
    [] d.kind = "headerOnly" -> HeaderText
    [] OTHER ->
         [i \in 1..d.lead |-> " "] \o HeaderText
           \o (IF d.crlf THEN <<"\r", "\n">> ELSE <<>>)
           \o PrefixText \o RecordRun(d.n) \o TailText(d.tail)

----------------------------------------------------------------------------
(* Bounds of the model.                                                    *)

\* files the user selects in one session
MaxSelections == 2
\* sample records of a generated log text
MaxRecords == 3
\* leading white-space characters of a generated log text
MaxLead == 1
\* the records of a log text whose progress passes a half that binary64
\* arithmetic rounds down (after record 23 of 40: 57.49999999999999)
HalfwayRecords == 40

----------------------------------------------------------------------------
(* The parsing functions.                                                  *)

\* null for the vehicleInfo state; a parsed header is a sequence of 6 values
NoHeader == <<>>
\* null for the file state and for the parse timer
NoFile == [id |-> 0, data |-> [kind |-> "none", lead |-> 0, crlf |-> FALSE,
                               n |-> 0, tail |-> "none"]]
\* null for the error state
NoError == "null"
\* '파일이 비어 있습니다.'
ErrEmpty == "file is empty"
\* '파싱된 운행 기록이 없습니다. 파일 형식을 확인해주세요.'
ErrNoRecords == "no drive records parsed"
\* '파일 읽기 중 오류가 발생했습니다.'
ErrRead == "file read error"

\* the values of one schema sliced from `data`, the first field at `start`
SliceFields(fields, data, start) ==
  [k \in 1..Len(fields) |->
     ApplyFormat(fields[k],
                 Substring(data, start + FieldOffset(fields, k),
                           start + FieldOffset(fields, k) + fields[k].length))]

\* parseFixedPositionData(data)
parseFixedPositionData(data) ==
  [vehicleInfo   |-> SliceFields(vehicleInfoFields, data, 0),
   remainingData |-> SubstringFrom(data, vehicleInfoLength)]

dailyDistanceLength == 4
totalDistanceLength == 7
firstRecordOffset == dailyDistanceLength + totalDistanceLength

\* the samples numbered from 0, as the positions of an array are
parseDriveRecordFromZero(data, id, isFirstRecord) ==
  IF isFirstRecord
  THEN [id            |-> id - 1,
        dailyDistance |-> FormatDistance(Substring(data, 0, 4)),
        totalDistance |-> FormatDistance(Substring(data, 4, 11)),
        fields        |-> SliceFields(driveRecordFields, data, 11)]
  ELSE [id |-> id - 1, fields |-> SliceFields(driveRecordFields, data, 0)]

\* parseDriveRecord(data, id, isFirstRecord)
parseDriveRecord(data, id, isFirstRecord) ==
  IF isFirstRecord
  THEN [id            |-> id,
        dailyDistance |-> FormatDistance(Substring(data, 0, 4)),
        totalDistance |-> FormatDistance(Substring(data, 4, 11)),
        fields        |-> SliceFields(driveRecordFields, data, 11)]
  ELSE [id |-> id, fields |-> SliceFields(driveRecordFields, data, 0)]

\* the records whose field values parseFile sets again from recordData
LoggedRecords == 5

\* the distances stay as parseDriveRecord read them from the record
KeepParsedDistances(record, isFirstRecord, dailyDistance, totalDistance) ==
  record

\* record.일일주행거리 = ..., record.누적주행거리 = ... on the first record
WithDistances(record, isFirstRecord, dailyDistance, totalDistance) ==
  IF isFirstRecord
  THEN [record EXCEPT !.dailyDistance = FormatDistance(dailyDistance),
                      !.totalDistance = FormatDistance(totalDistance)]
  ELSE record

\* the fields stay as parseDriveRecord sliced them
KeepParsedFields(record, recordData, recordCount) == record

\* the fields set again from recordData for the first LoggedRecords records
WithLoggedFields(record, recordData, recordCount) ==
  IF recordCount <= LoggedRecords
  THEN [record EXCEPT !.fields = SliceFields(driveRecordFields, recordData, 0)]
  ELSE record

\* The record parseFile pushes for recordData: parseDriveRecord, the two
\* distance values set on the first record, the fields set again for the
\* first LoggedRecords records.
BuildRecord(recordData, recordCount, dailyDistance, totalDistance) ==
  WithLoggedFields(
    WithDistances(parseDriveRecord(recordData, recordCount, recordCount = 1),
                  recordCount = 1, dailyDistance, totalDistance),
    recordData, recordCount)

\* the loop stops one record early when the records fill the text exactly
LoopCondStrict(position, length) == position + driveRecordLength < length

\* the loop condition: position + driveRecordLength <= recordsData.length
LoopCond(position, length) == position + driveRecordLength <= length

\* the progress computed from what is left of the text
ProgressPercentRemaining(position, length) ==
  Min(100, (200 * (length - position) + length) \div (2 * length))

\* The k in 0..99 for which ((2 * k + 1) / 200) * 100 evaluates in binary64
\* arithmetic to less than k + 0.5 (e.g. 0.145 * 100 = 14.499999999999998).
HalvesBelow == {14, 28, 56, 57}

\* Math.round(x * 100) for the quotient x = position / length: a half is
\* rounded up.  The binary64 value differs from the exact one by less than
\* the distance of 100 * position / length to a half, unless that value is
\* a half itself, k + 0.5: then position / length is the binary64 quotient
\* nearest to (2 * k + 1) / 200 and the product is below the half for the k
\* of HalvesBelow.
RoundPercent(position, length) ==
  IF /\ (200 * position) % length = 0
     /\ ((200 * position) \div length) % 2 = 1
     /\ ((100 * position) \div length) \in HalvesBelow
  THEN (100 * position) \div length
  ELSE (200 * position + length) \div (2 * length)

\* Math.min(100, Math.round((position / length) * 100))
ProgressPercent(position, length) == Min(100, RoundPercent(position, length))

\* the loop suspends when recordCount % YieldEvery = 0
YieldEvery == 100

\* One pass of the try block and the statements after it, for the record
\* numbered recordCount at c.position: the record is pushed, then the
\* position advances and the progress is set.  The try block applies
\* substring, parseInt, parseFloat, toFixed, startsWith, Math.abs, template
\* literals, console.log and push to strings and numbers; none of them
\* throws, so the catch of the record is never entered.
AfterRecord(c, recordData, recordCount, length, dailyDistance, totalDistance) ==
  [c EXCEPT
     !.recordCount = recordCount,
     !.records = Append(@, BuildRecord(recordData, recordCount,
                                       dailyDistance, totalDistance)),
     !.position = c.position + driveRecordLength,
     !.progressLog = Append(@, ProgressPercent(c.position + driveRecordLength,
                                               length))]

\* a pass for a recordData that is shorter than a record: nothing is parsed
AfterSkip(c, length) ==
  [c EXCEPT
     !.position = c.position + driveRecordLength,
     !.progressLog = Append(@, ProgressPercent(c.position + driveRecordLength,
                                               length))]

\* the body of the loop for recordData: recordCount++ and the try block
LoopBody(c, recordData, length, dailyDistance, totalDistance) ==
  IF Len(recordData) = driveRecordLength
  THEN AfterRecord(c, recordData, c.recordCount + 1, length,
                   dailyDistance, totalDistance)
  ELSE AfterSkip(c, length)

\* if (recordCount % 100 === 0) await ...
Suspends(c) == c.recordCount % YieldEvery = 0

\* the end of a pass: the call suspends, or stays in the loop
Continue(c) == IF Suspends(c) THEN [c EXCEPT !.pc = "yielded"] ELSE c

\* One pass of the while loop of parseFile for a call inside the loop: the
\* loop condition, the body, the suspension.
Pass(c, recordsData, dailyDistance, totalDistance) ==
  IF ~LoopCond(c.position, Len(recordsData)) THEN [c EXCEPT !.pc = "finishing"]
  ELSE Continue(LoopBody(c, Substring(recordsData, c.position,
                                      c.position + driveRecordLength),
                         Len(recordsData), dailyDistance, totalDistance))

\* Up to n passes of the loop, which stop at its suspension or its end; the
\* passes are applied by halves.
RECURSIVE Passes(_, _, _, _, _)
Passes(c, n, recordsData, dailyDistance, totalDistance) ==
  IF c.pc # "looping" THEN c
  ELSE IF n <= 1 THEN Pass(c, recordsData, dailyDistance, totalDistance)
  ELSE Passes(Passes(c, n \div 2, recordsData, dailyDistance, totalDistance),
              n - (n \div 2), recordsData, dailyDistance, totalDistance)

\* The while loop of parseFile from the state of call c up to its next
\* suspension or its end: every pass advances the position by a record, so
\* the loop ends within Len(recordsData) \div driveRecordLength + 1 passes.
RunLoop(c, recordsData, dailyDistance, totalDistance) ==
  Passes([c EXCEPT !.pc = "looping"],
         (Len(recordsData) \div driveRecordLength) + 1,
         recordsData, dailyDistance, totalDistance)

\* a normalization that removes every white-space character
NormalizeStripsAllSpace(text) == SelectSeq(text, LAMBDA c : c \notin WhiteSpace)

\* const content = text.replace(/\r\n/g, '\n').trim()
Normalize(text) == Trim(ReplaceCRLF(text))

\* the check without the trim: only the empty text is rejected
IsEmptyTextNoTrim(text) == text = <<>>

\* !text || text.trim() === ''
IsEmptyText(text) == text = <<>> \/ Trim(text) = <<>>

----------------------------------------------------------------------------
(* The state.                                                              *)

VARIABLES
  file,          \* useState: the selected File (its id, its text descriptor)
  isLoading,     \* useState
  progress,      \* useState
  vehicleInfo,   \* useState: the published header, NoHeader for null
  driveRecords,  \* useState: the published sample list
  error,         \* useState: the published error message, NoError for null
  parseTimeout,  \* the file of the pending setTimeout of the effect, or NoFile
  calls,         \* the parseFile invocations, by the id of their file
  fileSeq,       \* the number of File objects selected so far
  inputs,        \* the selections the user still makes, in order
  probe          \* one application of a field transform (transform checks)

vars == <<file, isLoading, progress, vehicleInfo, driveRecords, error,
          parseTimeout, calls, fileSeq, inputs, probe>>

react == <<file, isLoading, progress, vehicleInfo, driveRecords, error>>

Descriptor(kind, lead, crlf, n, tail) ==
  [kind |-> kind, lead |-> lead, crlf |-> crlf, n |-> n, tail |-> tail]

\* a log text long enough for the loop to suspend once and go on
BigRecords == YieldEvery + 1

Tails == {"none", "ten", "almost", "newline"}

\* the selections of a single decode: the descriptors of their texts
DecodeInputs ==
  {[data |-> Descriptor(k, 0, FALSE, 0, "none")] :
      k \in {"empty", "blank", "short", "shortSpace", "headerOnly"}}
  \cup {[data |-> Descriptor("log", lead, crlf, n, tail)] :
          lead \in 0..MaxLead, crlf \in BOOLEAN, n \in 0..MaxRecords,
          tail \in Tails}
  \cup {[data |-> Descriptor("log", 0, FALSE, BigRecords, "none")],
        [data |-> Descriptor("log", 0, FALSE, HalfwayRecords, "none")]}

\* the selections of a session of several files
SessionInputs ==
  { [data |-> Descriptor("blank", 0, FALSE, 0, "none")],
    [data |-> Descriptor("headerOnly", 0, FALSE, 0, "none")],
    [data |-> Descriptor("log", 0, FALSE, 2, "none")],
    [data |-> Descriptor("log", 0, FALSE, 1, "ten")],
    [data |-> Descriptor("log", 0, FALSE, BigRecords, "none")] }

RECURSIVE Scripts(_, _)
Scripts(S, n) ==
  IF n = 0 THEN {<<>>}
  ELSE {<<e>> \o s : e \in S, s \in Scripts(S, n - 1)}

NoProbe == [field |-> 0, raw |-> <<>>, out |-> <<>>, applied |-> FALSE]

\* the state after construction (the useState initial values)
Mounted ==
  /\ file = NoFile
  /\ isLoading = FALSE
  /\ progress = 0
  /\ vehicleInfo = NoHeader
  /\ driveRecords = <<>>
  /\ error = NoError
  /\ parseTimeout = NoFile
  /\ calls = <<>>
  /\ fileSeq = 0

Init ==
  /\ Mounted
  /\ inputs \in Scripts(SessionInputs, MaxSelections)
  /\ probe = NoProbe

InitDecode ==
  /\ Mounted
  /\ inputs \in {<<e>> : e \in DecodeInputs}
  /\ probe = NoProbe

----------------------------------------------------------------------------
(* The operations.                                                         *)

\* handleFileChange, and the effect its setFile triggers: the cleanup clears
\* the pending timeout and a new one is set for the new file.
handleFileChange ==
  /\ inputs # <<>>
  /\ file' = [id |-> fileSeq + 1, data |-> Head(inputs).data]
  /\ parseTimeout' = [id |-> fileSeq + 1, data |-> Head(inputs).data]
  /\ fileSeq' = fileSeq + 1
  /\ inputs' = Tail(inputs)
  /\ vehicleInfo' = NoHeader
  /\ driveRecords' = <<>>
  /\ error' = NoError
  /\ progress' = 0
  /\ UNCHANGED <<isLoading, calls, probe>>

\* the locals of a parseFile invocation when it awaits readFileAsync
NewCall(f) ==
  [data |-> f.data, pc |-> "reading",
   resolved |-> FALSE,        \* whether readFileAsync has resolved
   position |-> 0, recordCount |-> 0, records |-> <<>>,
   progressLog |-> <<0>>,     \* the values this call passed to setProgress
   setHeader |-> NoHeader,    \* what it passed to setVehicleInfo
   published |-> FALSE,       \* whether it called setDriveRecords
   setErr |-> NoError]        \* what it last passed to setError

\* The timeout of the effect fires: parseFile starts and runs up to
\* await readFileAsync(file).
parseFileStart ==
  /\ parseTimeout # NoFile
  /\ calls' = calls @@ (parseTimeout.id :> NewCall(parseTimeout))
  /\ parseTimeout' = NoFile
  /\ isLoading' = TRUE
  /\ progress' = 0
  /\ error' = NoError
  /\ UNCHANGED <<file, vehicleInfo, driveRecords, fileSeq, inputs, probe>>

\* the catch and finally blocks of parseFile for an error with message msg
Fatal(i, msg) ==
  /\ calls' = [calls EXCEPT ![i] = [@ EXCEPT !.pc = "done", !.setErr = msg,
                                             !.resolved = (msg # ErrRead),
                                             !.progressLog = Append(@, 100)]]
  /\ error' = msg
  /\ isLoading' = FALSE
  /\ progress' = 100
  /\ UNCHANGED <<file, vehicleInfo, driveRecords, parseTimeout, fileSeq,
                 inputs, probe>>

\* the error state left as it is when the list is empty
KeepError(records, err) == err

\* if (records.length === 0) setError('파싱된 운행 기록이 없습니다. ...'): the
\* error state after it, from the error state err before
EmptyListError(records, err) == IF records = <<>> THEN ErrNoRecords ELSE err

\* What a call writes when its loop has suspended (c.pc = "yielded") or
\* ended: setDriveRecords, the error of an empty list, the finally block.
Settle(i, c, header) ==
  /\ vehicleInfo' = header
  /\ IF c.pc = "yielded"
     THEN /\ calls' = [calls EXCEPT ![i] = c]
          /\ progress' = c.progressLog[Len(c.progressLog)]
          /\ UNCHANGED <<driveRecords, error, isLoading>>
     ELSE /\ calls' = [calls EXCEPT ![i] =
                         [c EXCEPT !.pc = "done", !.published = TRUE,
                                   !.setErr = EmptyListError(c.records, @),
                                   !.progressLog = Append(@, 100)]]
          /\ driveRecords' = c.records
          /\ error' = EmptyListError(c.records, error)
          /\ isLoading' = FALSE
          /\ progress' = 100
  /\ UNCHANGED <<file, parseTimeout, fileSeq, inputs, probe>>

\* the record stream of a call: remainingData after the distance prefix
RecordsData(remainingData) == SubstringFrom(remainingData, firstRecordOffset)

\* reader.onerror: readFileAsync rejects
readFileFails ==
  \E i \in DOMAIN calls :
    /\ calls[i].pc = "reading"
    /\ Fatal(i, ErrRead)

\* the sample phase of parseFile for remainingData, from the state of c
SamplePhase(c, remainingData) ==
  IF Len(remainingData) >= firstRecordOffset
  THEN RunLoop(c, RecordsData(remainingData),
               Substring(remainingData, 0, dailyDistanceLength),
               Substring(remainingData, dailyDistanceLength, firstRecordOffset))
  ELSE [c EXCEPT !.pc = "finishing"]

\* parseFile from setVehicleInfo(parsedVehicleInfo) on
AfterHeader(i, parsed) ==
  Settle(i, SamplePhase([calls[i] EXCEPT !.setHeader = parsed.vehicleInfo,
                                         !.resolved = TRUE],
                        parsed.remainingData),
         parsed.vehicleInfo)

\* parseFile from the resolved text on
AfterRead(i, text) ==
  IF IsEmptyText(text) THEN Fatal(i, ErrEmpty)
  ELSE AfterHeader(i, parseFixedPositionData(Normalize(text)))


\* readFileAsync resolves: parseFile goes on from the await up to the first
\* suspension of its loop, or to its end.
parseFileRead ==
  \E i \in DOMAIN calls :
    /\ calls[i].pc = "reading"
    /\ AfterRead(i, FileText(calls[i].data))

\* the setTimeout(resolve, 0) of a suspended loop fires: the loop goes on
parseFileResume ==
  \E i \in DOMAIN calls :
    /\ calls[i].pc = "yielded"
    /\ Settle(i,
              SamplePhase(calls[i],
                          parseFixedPositionData(
                            Normalize(FileText(calls[i].data))).remainingData),
              vehicleInfo)

Next ==
  \/ handleFileChange
  \/ parseFileStart
  \/ readFileFails
  \/ parseFileRead
  \/ parseFileResume

\* a session: up to MaxSelections files, decodes that may overlap
Spec == Init /\ [][Next]_vars

\* one file and its decode, over the generated texts
SpecDecode == InitDecode /\ [][Next]_vars

----------------------------------------------------------------------------
(* One application of a field transform, for the checks of the transforms. *)

\* the characters of the raw values the speed transform is applied to
SpeedAlphabet == {"0", "1", "2", "9", " ", "-", "a"}

\* every raw value of `length` characters over `alphabet`
RawValues(alphabet, length) == [1..length -> alphabet]

InitSpeed ==
  /\ Mounted
  /\ inputs = <<>>
  /\ probe \in {[field |-> 2, raw |-> r, out |-> <<>>, applied |-> FALSE] :
                  r \in RawValues(SpeedAlphabet, driveRecordFields[2].length)}

\* field.format(value) for the probed field and raw value
applyFormat ==
  /\ ~probe.applied
  /\ probe' = [probe EXCEPT
                 !.out = ApplyFormat(driveRecordFields[probe.field], probe.raw),
                 !.applied = TRUE]
  /\ UNCHANGED <<react, parseTimeout, calls, fileSeq, inputs>>

NextProbe == applyFormat

\* the speed transform on every raw value over SpeedAlphabet
SpecSpeed == InitSpeed /\ [][NextProbe]_vars

\* the raw values of the components of a timestamp the transform is applied
\* to: values at both sides of each bound, and values that are not digits
YearParts == {<<"2", "5">>, <<"a", "b">>}
MonthParts == {<<"0", "0">>, <<"0", "1">>, <<"1", "2">>, <<"1", "3">>,
               <<"1", "a">>, <<"a", "b">>}
DayParts == {<<"0", "0">>, <<"3", "1">>, <<"3", "2">>, <<"-", "1">>}
HourParts == {<<"2", "3">>, <<"2", "4">>, <<" ", "5">>, <<"-", "1">>,
              <<"0", "x">>, <<"a", "b">>}
MinuteParts == {<<"5", "9">>, <<"6", "0">>}
SecondParts == {<<"5", "9">>, <<"6", "0">>, <<"x", "x">>}
FractionParts == {<<"0", "0">>, <<"9", "9">>}

\* the raw timestamps of 14 characters
RawTimestamps ==
  {yy \o mo \o dd \o hh \o mi \o ss \o ff :
     yy \in YearParts, mo \in MonthParts, dd \in DayParts, hh \in HourParts,
     mi \in MinuteParts, ss \in SecondParts, ff \in FractionParts}

\* raw values whose length is not 14: the empty value, a value cut short by
\* the end of the text, a value one character too long
OtherLengths ==
  {<<>>} \cup {SubSeq(r, 1, 13) : r \in {t \in RawTimestamps : t[9] = "5"
                                                            /\ t[11] = "5"}}
         \cup {r \o <<"0">> : r \in {t \in RawTimestamps : t[3] = "1"
                                                          /\ t[5] = "3"}}

InitTimestamp ==
  /\ Mounted
  /\ inputs = <<>>
  /\ probe \in {[field |-> 1, raw |-> r, out |-> <<>>, applied |-> FALSE] :
                  r \in RawTimestamps \cup OtherLengths}

\* the timestamp transform on every raw value of RawTimestamps and
\* OtherLengths
SpecTimestamp == InitTimestamp /\ [][NextProbe]_vars

----------------------------------------------------------------------------
(* Properties of the decoder.                                              *)

\* the calls that ran to their end
Done(i) == calls[i].pc = "done"

\* the calls that reached setDriveRecords (their text was not empty)
Decoded == {i \in DOMAIN calls : calls[i].published}

\* the resolved text of call i, and its normalized content
TextOf(i) == FileText(calls[i].data)
ContentOf(i) == Normalize(FileText(calls[i].data))

\* R: the characters left after the 76-character header and the
\* 11-character distance prefix
Remainder(content) == Max(0, Len(content) - 76 - 11)

\* what call i published as its result
Outcome(i) ==
  [header  |-> calls[i].setHeader,
   samples |-> IF calls[i].published THEN calls[i].records ELSE <<>>,
   error   |-> calls[i].setErr]

\* C1: the sample phase of a decode processes floor(R / 57) records, R the
\* characters after the header and the distance prefix; a shorter tail
\* gives neither a sample nor an error, so the result holds floor(R / 57)
\* samples, and no error when it holds a sample.
C1_SampleCount ==
  \A i \in Decoded :
    /\ calls[i].recordCount = Remainder(ContentOf(i)) \div 57
    /\ calls[i].position = 57 * (Remainder(ContentOf(i)) \div 57)
    /\ Len(calls[i].records) = Remainder(ContentOf(i)) \div 57
    /\ Len(calls[i].records) >= 1 => calls[i].setErr = NoError
    /\ Done(i) => driveRecords = calls[i].records

\* a finished decode of a text with a tail shorter than a record, which
\* yielded samples
C1_Witness ==
  \E i \in Decoded :
    /\ Done(i)
    /\ Remainder(ContentOf(i)) % 57 # 0
    /\ Len(calls[i].records) >= 1

\* C2: the id of each sample of a result is its 1-based position in the
\* sample list.  (No record of a text fails to decode: the count of the
\* records, which gives the id, is the count of the samples pushed.)
C2_IdIsPosition ==
  \A i \in Decoded :
    /\ \A k \in 1..Len(calls[i].records) : calls[i].records[k].id = k
    /\ Len(calls[i].records) = calls[i].recordCount

\* a finished decode whose loop suspended and went on, and whose last
\* sample, past the suspension, has the id of its position
C2_Witness ==
  \E i \in Decoded :
    /\ Done(i)
    /\ Len(calls[i].records) > YieldEvery
    /\ calls[i].records[Len(calls[i].records)].id = Len(calls[i].records)

\* C5: a decode whose text is empty or only white space ends in the fatal
\* error before any slicing: the error is set, the header stays null and
\* the sample list stays empty.
C5_EmptyIsFatal ==
  \A i \in DOMAIN calls :
    (Done(i) /\ calls[i].resolved /\ IsBlank(TextOf(i))) =>
      /\ error = ErrEmpty
      /\ vehicleInfo = NoHeader
      /\ driveRecords = <<>>
      /\ calls[i].setHeader = NoHeader
      /\ ~calls[i].published
      /\ calls[i].recordCount = 0
      /\ ~isLoading

\* a finished decode of a text that is not empty and only white space
C5_Witness ==
  \E i \in DOMAIN calls :
    /\ Done(i)
    /\ calls[i].resolved
    /\ TextOf(i) # <<>>
    /\ IsBlank(TextOf(i))
    /\ error = ErrEmpty

\* the text of call i was read and is not empty or only white space
Readable(i) == calls[i].resolved /\ ~IsBlank(TextOf(i))

\* C6: a finished decode of a text that is not empty publishes the header;
\* when it recovered no sample it also publishes the no-records error, and
\* its text holds no record.  The fatal outcome has no header and the error
\* of the empty text or of the failed read, and a result with samples has
\* no error: the three outcomes differ, and none stands for records that
\* were there and failed.
C6_EmptyDistinguished ==
  \A i \in DOMAIN calls :
    Done(i) =>
      /\ Readable(i) =>
            /\ calls[i].published
            /\ Outcome(i).header # NoHeader
            /\ vehicleInfo = Outcome(i).header
      /\ (Readable(i) /\ Outcome(i).samples = <<>>) =>
            /\ Outcome(i).error = ErrNoRecords
            /\ error = ErrNoRecords
            /\ Remainder(ContentOf(i)) \div 57 = 0
      /\ (Readable(i) /\ Outcome(i).samples # <<>>) =>
            Outcome(i).error = NoError
      /\ ~Readable(i) =>
            /\ ~calls[i].published
            /\ Outcome(i).header = NoHeader
            /\ vehicleInfo = NoHeader
            /\ Outcome(i).error \in {ErrEmpty, ErrRead}
            /\ Outcome(i).error # ErrNoRecords

\* a finished decode of a text that holds characters after the distance
\* prefix, fewer than a record: no sample, the header and the no-records
\* error
C6_Witness ==
  \E i \in Decoded :
    /\ Done(i)
    /\ Len(ContentOf(i)) > 76 + 11
    /\ calls[i].records = <<>>
    /\ vehicleInfo # NoHeader
    /\ error = ErrNoRecords

\* the fields of one schema decoded from the positions of `text` itself
FieldsAt(fields, text, start) ==
  [k \in 1..Len(fields) |->
     ApplyFormat(fields[k],
                 SubSeq(text, Min(start + FieldOffset(fields, k), Len(text)) + 1,
                        Min(start + FieldOffset(fields, k) + fields[k].length,
                            Len(text))))]

\* the header fields that end within the first `length` characters
HeaderFieldsWithin(length) ==
  {k \in 1..Len(vehicleInfoFields) :
     FieldOffset(vehicleInfoFields, k) + vehicleInfoFields[k].length <= length}

\* C7 as stated: every header field and every sample field of a result is
\* decoded from its positions in the original text: header field f from
\* [o_f, o_f + len_f), sample i from offset 76 + 11 + 57 * (i - 1).
C7_OffsetsOfOriginal ==
  \A i \in Decoded :
    /\ calls[i].setHeader = FieldsAt(vehicleInfoFields, TextOf(i), 0)
    /\ \A k \in 1..Len(calls[i].records) :
         calls[i].records[k].fields
           = FieldsAt(driveRecordFields, TextOf(i),
                      76 + 11 + 57 * (calls[i].records[k].id - 1))

\* the text does not begin with white space and holds no "\r\n" before its
\* last character that is not white space
Unshifted(text) ==
  /\ ~IsBlank(text)
  /\ text[1] \notin WhiteSpace
  /\ \A p \in 1..(LastNonWs(text) - 1) :
       ~(text[p] = "\r" /\ text[p + 1] = "\n")

\* C7 as amended: for a text that does not begin with white space and holds
\* no "\r\n" before its last character that is not white space, every
\* sample field of the result, and every header field that ends before the
\* trailing white space, is decoded from its positions in the original text.
C7_OffsetsWhenUnshifted ==
  \A i \in Decoded :
    Unshifted(TextOf(i)) =>
      /\ \A f \in HeaderFieldsWithin(Len(ContentOf(i))) :
           calls[i].setHeader[f] = FieldsAt(vehicleInfoFields, TextOf(i), 0)[f]
      /\ \A k \in 1..Len(calls[i].records) :
           calls[i].records[k].fields
             = FieldsAt(driveRecordFields, TextOf(i),
                        76 + 11 + 57 * (calls[i].records[k].id - 1))

\* a finished decode of an unshifted text that ends with a line break,
\* which normalization removed, and that yielded samples
C7_Witness ==
  \E i \in Decoded :
    /\ Done(i)
    /\ Unshifted(TextOf(i))
    /\ TextOf(i)[Len(TextOf(i))] = "\n"
    /\ ContentOf(i) # TextOf(i)
    /\ Len(calls[i].records) >= 2

\* C8: the first sample of every result carries the daily distance of the
\* first 4 characters after the header and the cumulative distance of the
\* next 7, and no other sample carries either.
C8_DistanceOnFirstSample ==
  \A i \in Decoded :
    /\ Len(calls[i].records) >= 1 =>
         /\ {"dailyDistance", "totalDistance"} \subseteq DOMAIN calls[i].records[1]
         /\ calls[i].records[1].dailyDistance
              = FormatDistance(SubSeq(ContentOf(i), 77, 80))
         /\ calls[i].records[1].totalDistance
              = FormatDistance(SubSeq(ContentOf(i), 81, 87))
    /\ \A k \in 2..Len(calls[i].records) :
         {"dailyDistance", "totalDistance"} \cap DOMAIN calls[i].records[k] = {}

\* a finished decode of several samples whose first one carries the
\* distances of the prefix, which are not those of the first characters of
\* its own block
C8_Witness ==
  \E i \in Decoded :
    /\ Done(i)
    /\ Len(calls[i].records) >= 2
    /\ "dailyDistance" \in DOMAIN calls[i].records[1]
    /\ calls[i].records[1].dailyDistance
         = FormatDistance(SubSeq(ContentOf(i), 77, 80))
    /\ calls[i].records[1].dailyDistance
         # FormatDistance(SubSeq(ContentOf(i), 88, 91))

\* C9: the progress values of one decode start at 0, never decrease, lie
\* in 0..100, and the last one of a finished decode is 100.
C9_ProgressMonotone ==
  \A i \in DOMAIN calls :
    /\ calls[i].progressLog[1] = 0
    /\ \A k \in 2..Len(calls[i].progressLog) :
         /\ calls[i].progressLog[k] >= calls[i].progressLog[k - 1]
         /\ calls[i].progressLog[k] \in 0..100
    /\ Done(i) => /\ calls[i].progressLog[Len(calls[i].progressLog)] = 100
                  /\ progress = 100

\* a finished decode whose loop suspended and went on
C9_Witness ==
  \E i \in Decoded :
    /\ Done(i)
    /\ calls[i].recordCount > YieldEvery
    /\ \E k \in 2..(Len(calls[i].progressLog) - 1) :
         calls[i].progressLog[k] > 0 /\ calls[i].progressLog[k] < 100

\* no decode is in progress and none is scheduled
Idle ==
  /\ parseTimeout = NoFile
  /\ \A i \in DOMAIN calls : Done(i)

\* C3: whenever no decode is in progress, the published header, sample
\* list, error and progress are those of the decode of the file selected
\* last.
C3_PublishedFromLatest ==
  (Idle /\ file # NoFile) =>
    /\ vehicleInfo = Outcome(file.id).header
    /\ driveRecords = Outcome(file.id).samples
    /\ error = Outcome(file.id).error
    /\ progress = 100

\* the value of a string of decimal digits
DigitsOnly(raw) == \A k \in 1..Len(raw) : IsDigit(raw[k])

\* the numeric part of a formatted speed, and its unit
SpeedNumber(out) == SubSeq(out, 1, Len(out) - 5)
SpeedUnit(out) == SubSeq(out, Len(out) - 4, Len(out))

\* C10: the speed transform gives the integer value v of the raw value if
\* v <= 200 and the value of its first two characters otherwise (0 for a
\* value that is not numeric), followed by " km/h"; for three digits the
\* speed lies in 0..200.
C10_Speed ==
  probe.applied =>
    /\ SpeedUnit(probe.out) = <<" ", "k", "m", "/", "h">>
    /\ SpeedNumber(probe.out)
         = IntToStr(IF OrZero(ParseInt(probe.raw)) <= 200
                    THEN OrZero(ParseInt(probe.raw))
                    ELSE OrZero(ParseInt(SubSeq(probe.raw, 1, 2))))
    /\ DigitsOnly(probe.raw) =>
         /\ SpeedNumber(probe.out)
              = NatToStr(IF DigitsValue(probe.raw) <= 200
                         THEN DigitsValue(probe.raw)
                         ELSE DigitsValue(probe.raw) \div 10)
         /\ \E v \in 0..200 : SpeedNumber(probe.out) = NatToStr(v)
    /\ (~IsDigit(probe.raw[1]) /\ probe.raw[1] \notin WhiteSpace \cup {"-", "+"})
         => probe.out = <<"0", " ", "k", "m", "/", "h">>

\* the transform applied to three digits above 200
C10_Witness ==
  /\ probe.applied
  /\ DigitsOnly(probe.raw)
  /\ DigitsValue(probe.raw) > 200
  /\ probe.out = <<"9", "2", " ", "k", "m", "/", "h">>

\* the part of a timestamp that its raw component gives when the integer
\* value of the component is in lo..hi, else dflt
Clamped(part, lo, hi, dflt) ==
  IF /\ ~ParseIntAuto(part).nan
     /\ ParseIntAuto(part).val >= lo /\ ParseIntAuto(part).val <= hi
  THEN part ELSE dflt

\* the same for a component of two digits, by the value of the digits
ClampedDigits(part, lo, hi, dflt) ==
  IF DigitsValue(part) \in lo..hi THEN part ELSE dflt

\* the part its raw component gives when the integer value of the component
\* is below limit, else dflt
ClampedBelow(part, limit, dflt) ==
  IF ~ParseIntAuto(part).nan /\ ParseIntAuto(part).val < limit
  THEN part ELSE dflt

\* C11: for a raw value of 14 characters every component of the output is
\* decided by its own raw component alone: the month is raw if its value is
\* in 1..12 and "01" otherwise, the day raw if in 1..31 and "01" otherwise,
\* the hour raw if below 24, minute and second raw if below 60, and "00"
\* otherwise; the year is "20" and the raw year (2000 + YY for digits), the
\* fraction is the raw one; a raw value of another length is returned
\* unchanged.
C11_Timestamp ==
  probe.applied =>
    IF Len(probe.raw) # 14 THEN probe.out = probe.raw
    ELSE
      /\ Len(probe.out) = 22
      /\ SubSeq(probe.out, 1, 4) = <<"2", "0">> \o SubSeq(probe.raw, 1, 2)
      /\ DigitsOnly(SubSeq(probe.raw, 1, 2)) =>
           SubSeq(probe.out, 1, 4)
             = NatToStr(2000 + DigitsValue(SubSeq(probe.raw, 1, 2)))
      /\ <<probe.out[5], probe.out[8], probe.out[11], probe.out[14],
            probe.out[17], probe.out[20]>> = <<"-", "-", " ", ":", ":", ".">>
      /\ SubSeq(probe.out, 6, 7)
           = Clamped(SubSeq(probe.raw, 3, 4), 1, 12, <<"0", "1">>)
      /\ SubSeq(probe.out, 9, 10)
           = Clamped(SubSeq(probe.raw, 5, 6), 1, 31, <<"0", "1">>)
      /\ SubSeq(probe.out, 12, 13)
           = ClampedBelow(SubSeq(probe.raw, 7, 8), 24, <<"0", "0">>)
      /\ SubSeq(probe.out, 15, 16)
           = ClampedBelow(SubSeq(probe.raw, 9, 10), 60, <<"0", "0">>)
      /\ SubSeq(probe.out, 18, 19)
           = ClampedBelow(SubSeq(probe.raw, 11, 12), 60, <<"0", "0">>)
      /\ SubSeq(probe.out, 21, 22) = SubSeq(probe.raw, 13, 14)
      /\ DigitsOnly(probe.raw) =>
           /\ SubSeq(probe.out, 6, 7)
                = ClampedDigits(SubSeq(probe.raw, 3, 4), 1, 12, <<"0", "1">>)
           /\ SubSeq(probe.out, 9, 10)
                = ClampedDigits(SubSeq(probe.raw, 5, 6), 1, 31, <<"0", "1">>)
           /\ SubSeq(probe.out, 12, 13)
                = ClampedDigits(SubSeq(probe.raw, 7, 8), 0, 23, <<"0", "0">>)
           /\ SubSeq(probe.out, 15, 16)
                = ClampedDigits(SubSeq(probe.raw, 9, 10), 0, 59, <<"0", "0">>)
           /\ SubSeq(probe.out, 18, 19)
                = ClampedDigits(SubSeq(probe.raw, 11, 12), 0, 59, <<"0", "0">>)

\* the transform applied to 14 digits with a month and an hour out of range
\* next to a day, a minute and a second in range
C11_Witness ==
  /\ probe.applied
  /\ probe.raw = <<"2", "5", "1", "3", "3", "1", "2", "4", "5", "9", "5", "9",
                   "9", "9">>
  /\ probe.out = <<"2", "0", "2", "5", "-", "0", "1", "-", "3", "1", " ",
                   "0", "0", ":", "5", "9", ":", "5", "9", ".", "9", "9">>

\* the 57-character block of the sample with index id in the content
SampleBlock(content, id) ==
  SubSeq(content, 76 + 11 + 57 * (id - 1) + 1, 76 + 11 + 57 * id)

\* o_f for the 10 sample descriptors, in schema order
SampleOffsets == <<0, 14, 17, 21, 22, 31, 40, 43, 49, 55>>

\* field f of a sample decoded from its own block
FieldOfBlock(block, f) ==
  ApplyFormat(driveRecordFields[f],
              SubSeq(block, SampleOffsets[f] + 1,
                     SampleOffsets[f] + driveRecordFields[f].length))

\* C12: every sample of a result, the first one and those after the fifth
\* included, has each of its 10 fields equal to the transform of the field
\* applied to the characters [o_f, o_f + len_f) of its own 57-character
\* block, o_f the sum of the lengths of the descriptors before f; no field
\* of the first sample is sliced 11 characters further.
C12_FieldsOfOwnBlock ==
  /\ \A f \in 1..10 : SampleOffsets[f] = SumLengths(driveRecordFields, f - 1)
  /\ \A i \in Decoded :
       \A k \in 1..Len(calls[i].records) :
         /\ DOMAIN calls[i].records[k].fields = 1..10
         /\ \A f \in 1..10 :
              calls[i].records[k].fields[f]
                = FieldOfBlock(SampleBlock(ContentOf(i), calls[i].records[k].id), f)

\* a finished decode with more than five samples whose first sample is
\* that of record 1, and differs from the fields sliced 11 characters
\* further
C12_Witness ==
  \E i \in Decoded :
    /\ Done(i)
    /\ Len(calls[i].records) > LoggedRecords + 1
    /\ calls[i].records[1].id = 1
    /\ calls[i].records[1].fields
         # SliceFields(driveRecordFields, SampleBlock(ContentOf(i), 1), 11)
    /\ calls[i].records[1].fields
         = parseDriveRecord(SampleBlock(ContentOf(i), 1), 1, FALSE).fields

====
